---- MODULE Spec2Model ----
(***************************************************************************)
(* Model of src/data/fetch_scriptures.py: the verse parser of              *)
(* fetch_scripture_data, the sqlite store (create_database,                *)
(* store_data_in_database) and the batch driver (__main__).                *)
(*                                                                         *)
(* A Python str is a sequence of one-character strings.  A dict is a       *)
(* function whose DOMAIN is its set of keys.  The verses table is a bag    *)
(* of rows: a table is a multiset of rows, and only its PRIMARY KEY        *)
(* makes a key unique.                                                     *)
(***************************************************************************)
EXTENDS Integers, Sequences, FiniteSets, Bags, TLC

\* ------------------------------------------------------------- bounds
MaxVerses == 2
MaxCalls == 2
MaxLen == 2
MaxElems == 2

\* ------------------------------------------------------------- str
\* the value None, told from every dict
None == [NoneType |-> TRUE]

isspace(ch) == ch = " "

RECURSIVE lstrip(_)
lstrip(s) == IF s # <<>> /\ isspace(Head(s)) THEN lstrip(Tail(s)) ELSE s

RECURSIVE rstrip(_)
rstrip(s) == IF s # <<>> /\ isspace(s[Len(s)]) THEN rstrip(SubSeq(s, 1, Len(s) - 1)) ELSE s

\* str.strip()
strip(s) == rstrip(lstrip(s))

\* s[n:]
slice_from(s, n) == SubSeq(s, n + 1, Len(s))

Digits == {"0", "1", "2", "3", "4", "5", "6", "7", "8", "9"}

DigitValue(ch) ==
    CASE ch = "0" -> 0 [] ch = "1" -> 1 [] ch = "2" -> 2 [] ch = "3" -> 3
      [] ch = "4" -> 4 [] ch = "5" -> 5 [] ch = "6" -> 6 [] ch = "7" -> 7
      [] ch = "8" -> 8 [] ch = "9" -> 9

RECURSIVE digits_value(_, _)
digits_value(s, acc) ==
    IF s = <<>> THEN acc ELSE digits_value(Tail(s), acc * 10 + DigitValue(Head(s)))

\* int(s) raises ValueError unless s, stripped, is a non-empty run of digits
\* (signs and underscores are outside the alphabet of the model)
int_raises(s) ==
    LET t == strip(s) IN t = <<>> \/ \E i \in 1..Len(t) : t[i] \notin Digits

\* int(s), for s that parses: "01" and "1" are both 1
int(s) == digits_value(strip(s), 0)

\* dict.get(key, default)
get(d, key, default) == IF key \in DOMAIN d THEN d[key] ELSE default

\* the sequences over S of length at most n
SeqsUpTo(S, n) == UNION {[1..k -> S] : k \in 0..n}

\* ------------------------------------------------------------- parser
\* A fetched document, as far as fetch_scripture_data reads it: info holds the
\* keys volume, volume_abbrev, book, book_abbrev and chapter that lines 39-63
\* find in the breadcrumb markup (a key the markup lacks is absent), lis the
\* <li> elements in document order.  An <li> has its class, its id attribute,
\* and its text: the text before its <span class="verse">, the text of that
\* span when it has one, and the text after it.
get_text(li) == li.before \o (IF li.has_verse_span THEN li.verse ELSE <<>>) \o li.after

is_versesblock(li) == li.versesblock

has_id(li) == li.has_id

find_versesblock(lis) == SelectSeq(lis, is_versesblock)

find_li_with_id(lis) == SelectSeq(lis, has_id)

\* lines 67-69 without the fallback
select_verse_elements_no_fallback(lis) == find_versesblock(lis)

\* lines 67-69: the versesblock items, or when there is none the items with an id
select_verse_elements(lis) ==
    IF find_versesblock(lis) = <<>> THEN find_li_with_id(lis) ELSE find_versesblock(lis)

\* lines 73-80: the entry of one element that has a verse span
verse_entry(li) ==
    LET verse_text == strip(get_text(li))
        verse_content == strip(slice_from(verse_text, Len(li.verse)))
    IN  [number |-> strip(li.verse), text |-> verse_content]

has_verse_num(li) == li.has_verse_span

\* lines 66-80: one entry per element with a verse span, in order
verses_list(verse_elements) ==
    LET kept == SelectSeq(verse_elements, has_verse_num)
    IN  [k \in 1..Len(kept) |-> verse_entry(kept[k])]

\* lines 37-84: the dict fetch_scripture_data returns for a parsed document
chapter_info(document) ==
    document.info @@ ("verses" :> verses_list(select_verse_elements(document.lis)))

\* ------------------------------------------------------------- store
\* key of a row: PRIMARY KEY (book_id, chapter_id, verse_number)
row_key(row) == <<row.book_id, row.chapter_id, row.verse_number>>

\* INSERT into a table that has no PRIMARY KEY: nothing is replaced
insert_no_primary_key(table, row) == table (+) SetToBag({row})

\* INSERT OR REPLACE: the rows with the key of the new row are deleted, then
\* the new row is inserted
insert_or_replace(table, row) ==
    LET kept == {r \in DOMAIN table : row_key(r) # row_key(row)}
    IN  [r \in kept |-> table[r]] (+) SetToBag({row})

\* lines 134-144: the values bound to the statement for one verse
verse_row(book_id, chapter_id, data, verse) ==
    [book_id       |-> book_id,
     chapter_id    |-> chapter_id,
     verse_number  |-> int(verse.number),
     volume        |-> get(data, "volume", <<>>),
     volume_abbrev |-> get(data, "volume_abbrev", <<>>),
     book          |-> get(data, "book", <<>>),
     book_abbrev   |-> get(data, "book_abbrev", <<>>),
     chapter       |-> get(data, "chapter", <<>>),
     verse_text    |-> verse.text]

\* the loop leaving after its first verse
execute_first_verse_only(txn, book_id, chapter_id, data, i) ==
    LET verses == get(data, "verses", <<>>) IN
    IF i > Len(verses) THEN [raised |-> FALSE, txn |-> txn]
    ELSE IF int_raises(verses[i].number) THEN [raised |-> TRUE, txn |-> txn]
    ELSE [raised |-> FALSE,
          txn |-> insert_or_replace(txn, verse_row(book_id, chapter_id, data, verses[i]))]

\* lines 120-144: the loop from verse i on, inside the open transaction txn;
\* int() raising ends it
RECURSIVE execute_verses(_, _, _, _, _)
execute_verses(txn, book_id, chapter_id, data, i) ==
    LET verses == get(data, "verses", <<>>) IN
    IF i > Len(verses) THEN [raised |-> FALSE, txn |-> txn]
    ELSE IF int_raises(verses[i].number) THEN [raised |-> TRUE, txn |-> txn]
    ELSE execute_verses(insert_or_replace(txn, verse_row(book_id, chapter_id, data, verses[i])),
                        book_id, chapter_id, data, i + 1)

\* store_data_in_database with every execute committed at once
store_data_autocommit(table, book_id, chapter_id, data) ==
    LET r == execute_verses(table, book_id, chapter_id, data, 1)
    IN  [raised |-> r.raised, table |-> r.txn]

\* store_data_in_database that first deletes the rows of the chapter
store_data_delete_chapter(table, book_id, chapter_id, data) ==
    LET kept == {r \in DOMAIN table : ~(r.book_id = book_id /\ r.chapter_id = chapter_id)}
        r == execute_verses([x \in kept |-> table[x]], book_id, chapter_id, data, 1)
    IN  [raised |-> r.raised, table |-> IF r.raised THEN table ELSE r.txn]

\* lines 115-147: the table after the call.  The commit of line 146 is reached
\* only when no int() raised; otherwise the exception leaves the function, the
\* connection is dropped with its transaction open, and sqlite rolls it back.
store_data_in_database(table, book_id, chapter_id, data) ==
    LET r == execute_verses(table, book_id, chapter_id, data, 1)
    IN  [raised |-> r.raised, table |-> IF r.raised THEN table ELSE r.txn]

\* CREATE TABLE IF NOT EXISTS alone: an existing table keeps its rows
create_database_no_drop(exists, table) == IF exists THEN table ELSE EmptyBag

\* lines 96-112: DROP TABLE IF EXISTS, then CREATE TABLE: the table is empty
create_database(exists, table) == EmptyBag

\* ------------------------------------------------------------- state
VARIABLES
    pc,          \* where the program is
    exists,      \* whether scriptures.db holds a verses table
    db,          \* the committed rows of the verses table, a bag
    book_id,     \* loop variable / first argument of the last store call
    chapter_id,  \* loop variable / second argument of the last store call
    data,        \* result of the last fetch / third argument of the last store call
    document,    \* the document handed to the parser
    pre_db,      \* history: db before the last store call or loop iteration
    rel,         \* history: how the last store call relates to the one before it
    prev_nums,   \* history: the verse numbers the store call before the last wrote
    calls,       \* history: number of store_data_in_database calls
    creates,     \* history: number of create_database calls
    fetches,     \* history: number of fetch_scripture_data calls
    sleeps       \* history: number of time.sleep(1) calls

vars == <<pc, exists, db, book_id, chapter_id, data, document, pre_db, rel, prev_nums,
          calls, creates, fetches, sleeps>>

\* ------------------------------------------------------------- inputs
EmptyDict == [k \in {} |-> <<>>]

\* what lines 39-63 can leave in chapter_info: nothing, or every key
Infos ==
    {EmptyDict,
     [volume |-> <<"B">>, volume_abbrev |-> <<"b">>, book |-> <<"N">>,
      book_abbrev |-> <<"n">>, chapter |-> <<"1">>]}

\* verse entries: "1" and "01" are the same verse number
VerseEntries ==
    {[number |-> <<"1">>, text |-> <<"a">>],
     [number |-> <<"0", "1">>, text |-> <<"b">>],
     [number |-> <<"2">>, text |-> <<"a">>],
     [number |-> <<"x">>, text |-> <<"a">>]}

\* the ChapterRecords store_data_in_database is called with
Records == {i @@ ("verses" :> v) : i \in Infos, v \in SeqsUpTo(VerseEntries, MaxVerses)}

StoreBooks == {302}

StoreChapters == {1, 2}

\* the integer verse numbers of a record
verse_numbers(d) == {int(d["verses"][i].number) : i \in 1..Len(d["verses"])}

\* the rows of a table for one (book_id, chapter_id)
chapter_rows(table, b, c) == {r \in DOMAIN table : r.book_id = b /\ r.chapter_id = c}

\* a row an earlier run left in scriptures.db
OldRow ==
    [book_id |-> 302, chapter_id |-> 1, verse_number |-> 1, volume |-> <<"B">>,
     volume_abbrev |-> <<"b">>, book |-> <<"N">>, book_abbrev |-> <<"n">>,
     chapter |-> <<"1">>, verse_text |-> <<"o">>]

\* scriptures.db before a run: no table, an empty table, a table with a row
PriorStores ==
    {[exists |-> FALSE, table |-> EmptyBag],
     [exists |-> TRUE, table |-> EmptyBag],
     [exists |-> TRUE, table |-> SetToBag({OldRow})]}

\* ------------------------------------------------------------- store calls
\* Any sequence of store_data_in_database calls on the table create_database
\* made.
InitStore ==
    /\ \E p \in PriorStores : db = create_database(p.exists, p.table)
    /\ exists = TRUE
    /\ pc = "ready"
    /\ book_id = 0 /\ chapter_id = 0 /\ data = None /\ document = None
    /\ pre_db = EmptyBag /\ rel = "first" /\ prev_nums = {}
    /\ calls = 0 /\ creates = 1 /\ fetches = 0 /\ sleeps = 0

StoreCall ==
    /\ pc = "ready"
    /\ calls < MaxCalls
    /\ \E b \in StoreBooks, c \in StoreChapters, d \in Records :
          LET r == store_data_in_database(db, b, c, d) IN
          /\ db' = r.table
          /\ pc' = IF r.raised THEN "crashed" ELSE "ready"
          /\ pre_db' = db
          /\ book_id' = b /\ chapter_id' = c /\ data' = d
          /\ rel' = IF calls = 0 THEN "first"
                    ELSE IF b = book_id /\ c = chapter_id
                         THEN (IF d = data THEN "same_call" ELSE "same_chapter")
                         ELSE "other"
          /\ prev_nums' = IF calls > 0 /\ b = book_id /\ c = chapter_id
                          THEN verse_numbers(data) ELSE {}
    /\ calls' = calls + 1
    /\ UNCHANGED <<exists, document, creates, fetches, sleeps>>

NextStore == StoreCall

SpecStore == InitStore /\ [][NextStore]_vars

\* ------------------------------------------------------------- claims on the store
\* number of rows of a table for one (book_id, chapter_id), duplicates counted
row_count(table, b, c) == BagCardinality([r \in chapter_rows(table, b, c) |-> table[r]])

\* the entries of a record that are the last with their verse number
last_entries(d) ==
    {i \in 1..Len(d["verses"]) :
        \A j \in (i + 1)..Len(d["verses"]) :
            int(d["verses"][j].number) # int(d["verses"][i].number)}

\* the rows the record's entries yield, one per verse number
rows_yielded(b, c, d) == {verse_row(b, c, d, d["verses"][i]) : i \in last_entries(d)}

StoreReturned == calls > 0 /\ pc = "ready"

AfterTwoOnChapter == StoreReturned /\ rel \in {"same_call", "same_chapter"}

\* C1: the table never holds two rows with one key (book_id, chapter_id,
\* verse_number), and after a store call the row of each verse number written is
\* the whole row the call's last entry with that number yields, whatever row
\* had the key before.
C1_KeyUniqueFullReplace ==
    /\ \A r \in DOMAIN db : db[r] = 1
    /\ \A r1, r2 \in DOMAIN db : row_key(r1) = row_key(r2) => r1 = r2
    /\ StoreReturned =>
          \A r \in rows_yielded(book_id, chapter_id, data) :
              {x \in DOMAIN db : row_key(x) = row_key(r)} = {r}

\* a key that held a row with another volume and another text was written again
C1_Witness ==
    /\ StoreReturned
    /\ \E old \in DOMAIN pre_db, new \in DOMAIN db :
          /\ row_key(old) = row_key(new)
          /\ new \in rows_yielded(book_id, chapter_id, data)
          /\ old.verse_text # new.verse_text
          /\ old.volume # new.volume
          /\ old.verse_number = 1 /\ old.book_id = 302 /\ old.chapter_id = 1

\* C2: a store call with the arguments of the call before it leaves the table
\* as that call left it, rows and row contents.
C2_Idempotent == (StoreReturned /\ rel = "same_call") => db = pre_db

\* a record with verses was stored twice in a row
C2_Witness ==
    /\ StoreReturned /\ rel = "same_call"
    /\ Len(data["verses"]) = MaxVerses
    /\ row_count(db, book_id, chapter_id) > 0

\* C3 as stated: after two store calls in a row for one (book_id, chapter_id)
\* the rows of that chapter are exactly the rows the second record yields.
C3_ChapterFullyOverwritten ==
    AfterTwoOnChapter =>
        chapter_rows(db, book_id, chapter_id) = rows_yielded(book_id, chapter_id, data)

\* C3 amended: after two store calls in a row for one (book_id, chapter_id),
\* each verse number of the second record has exactly the row that record
\* yields for it, and the rows of the chapter with any other verse number,
\* those the first record wrote included, are as they were before the second
\* call.
C3_OverwritesWrittenKeysOnly ==
    AfterTwoOnChapter =>
        /\ \A r \in rows_yielded(book_id, chapter_id, data) :
              {x \in DOMAIN db : row_key(x) = row_key(r)} = {r}
        /\ \A r \in chapter_rows(pre_db, book_id, chapter_id) :
              r.verse_number \notin verse_numbers(data) => r \in DOMAIN db /\ db[r] = pre_db[r]
        /\ \A r \in chapter_rows(db, book_id, chapter_id) :
              r.verse_number \notin verse_numbers(data) => r \in DOMAIN pre_db

\* a row the first record wrote is still there after a second record, with
\* verses of its own, that lacks its verse number
C3_Witness ==
    /\ AfterTwoOnChapter
    /\ verse_numbers(data) # {}
    /\ \E n \in prev_nums \ verse_numbers(data) :
          \E r \in chapter_rows(db, book_id, chapter_id) : r.verse_number = n

\* C4 as stated: a store call on a table with no row for (book_id, chapter_id)
\* leaves as many rows for it as the record has entries, and each entry's text
\* is the verse_text of the row with its verse number.
C4_OneRowPerEntry ==
    (StoreReturned /\ chapter_rows(pre_db, book_id, chapter_id) = {}) =>
        /\ row_count(db, book_id, chapter_id) = Len(data["verses"])
        /\ \A i \in 1..Len(data["verses"]) :
              \E r \in chapter_rows(db, book_id, chapter_id) :
                  /\ r.verse_number = int(data["verses"][i].number)
                  /\ r.verse_text = data["verses"][i].text

\* C4 amended: a store call on a table with no row for (book_id, chapter_id)
\* leaves one row for it per distinct integer verse number of the record, and
\* the verse_text of the row of a verse number is the text of the record's last
\* entry with that number.
C4_OneRowPerVerseNumber ==
    (StoreReturned /\ chapter_rows(pre_db, book_id, chapter_id) = {}) =>
        /\ row_count(db, book_id, chapter_id) = Cardinality(verse_numbers(data))
        /\ \A i \in last_entries(data) :
              \A r \in chapter_rows(db, book_id, chapter_id) :
                  r.verse_number = int(data["verses"][i].number)
                      => r.verse_text = data["verses"][i].text
        /\ \A i \in 1..Len(data["verses"]) :
              \E r \in chapter_rows(db, book_id, chapter_id) :
                  r.verse_number = int(data["verses"][i].number)

\* a record with two entries for one verse number, "1" and "01", was stored
\* into an empty chapter
C4_Witness ==
    /\ StoreReturned /\ chapter_rows(pre_db, book_id, chapter_id) = {}
    /\ Len(data["verses"]) = 2
    /\ Cardinality(verse_numbers(data)) = 1
    /\ data["verses"][1].number # data["verses"][2].number
    /\ row_count(db, book_id, chapter_id) = 1

\* ------------------------------------------------------------- parsing a document
Booleans == {TRUE, FALSE}

\* one <li class="versesblock"> whose text is: optional space, the verse span,
\* the verse body; span and body are any text of at most MaxLen characters, the
\* span holding a number
TextElements ==
    {[versesblock |-> TRUE, has_id |-> FALSE, has_verse_span |-> TRUE,
      before |-> b, verse |-> m, after |-> a] :
        b \in {<<>>, <<" ">>},
        m \in {x \in SeqsUpTo({" ", "1"}, MaxLen) : strip(x) # <<>>},
        a \in SeqsUpTo({" ", "A"}, MaxLen)}

\* <li> elements of every class/id/span shape, with verse spans "1" and "2"
ShapeElements ==
    {[versesblock |-> v, has_id |-> i, has_verse_span |-> TRUE,
      before |-> <<>>, verse |-> m, after |-> <<" ", "A">>] :
        v \in Booleans, i \in Booleans, m \in {<<"1">>, <<"2">>}}
    \cup
    {[versesblock |-> v, has_id |-> i, has_verse_span |-> FALSE,
      before |-> <<>>, verse |-> <<>>, after |-> <<"A">>] :
        v \in Booleans, i \in Booleans}

Documents ==
    {[info |-> EmptyDict, lis |-> <<e>>] : e \in TextElements}
    \cup
    {[info |-> i, lis |-> l] : i \in Infos, l \in SeqsUpTo(ShapeElements, MaxElems)}

InitParse ==
    /\ document \in Documents
    /\ pc = "fetched"
    /\ data = None
    /\ exists = FALSE /\ db = EmptyBag /\ pre_db = EmptyBag
    /\ book_id = 0 /\ chapter_id = 0 /\ rel = "first" /\ prev_nums = {}
    /\ calls = 0 /\ creates = 0 /\ fetches = 0 /\ sleeps = 0

\* lines 35-84 on the response of a fetch that did not fail
Parse ==
    /\ pc = "fetched"
    /\ data' = chapter_info(document)
    /\ pc' = "parsed"
    /\ UNCHANGED <<exists, db, book_id, chapter_id, document, pre_db, rel, prev_nums,
                   calls, creates, fetches, sleeps>>

NextParse == Parse

SpecParse == InitParse /\ [][NextParse]_vars

\* ------------------------------------------------------------- claims on the parser
\* positions of the candidate elements: the versesblock items when there is
\* one, the items with an id when there is none
candidates(lis) ==
    IF \E i \in 1..Len(lis) : lis[i].versesblock
    THEN {i \in 1..Len(lis) : lis[i].versesblock}
    ELSE {i \in 1..Len(lis) : lis[i].has_id}

\* positions of the candidates that contain a verse-number marker
marked(lis) == {i \in candidates(lis) : lis[i].has_verse_span}

\* rank of a marked candidate among the marked candidates, in document order
rank(lis, i) == Cardinality({j \in marked(lis) : j <= i})

\* C8 as stated: the text of a verse whose marker leads its element is the
\* element's text without the marker and the whitespace around it, nothing else
\* changed or dropped, and its number is the marker's text trimmed.
C8_MarkerStripped ==
    pc = "parsed" =>
        \A i \in marked(document.lis) :
            strip(document.lis[i].before) = <<>> =>
                /\ data["verses"][rank(document.lis, i)].text = strip(document.lis[i].after)
                /\ data["verses"][rank(document.lis, i)].number = strip(document.lis[i].verse)

\* C10: the verses of the record are the candidates that contain a marker, one
\* entry each, in document order; the list is empty exactly when no candidate
\* has a marker.
C10_VerseSelection ==
    pc = "parsed" =>
        /\ Len(data["verses"]) = Cardinality(marked(document.lis))
        /\ \A i \in marked(document.lis) :
              data["verses"][rank(document.lis, i)] = verse_entry(document.lis[i])
        /\ (data["verses"] = <<>>) <=> (marked(document.lis) = {})

\* a document with no versesblock item was parsed: of its two items with an
\* id, the one with a marker is the only verse
C10_Witness ==
    /\ pc = "parsed"
    /\ Len(document.lis) = 2
    /\ \A i \in 1..2 : ~document.lis[i].versesblock /\ document.lis[i].has_id
    /\ ~document.lis[1].has_verse_span /\ document.lis[2].has_verse_span
    /\ Len(data["verses"]) = 1
    /\ data["verses"][1].number = <<"2">>

\* ------------------------------------------------------------- batch driver
\* range(start, stop)
Range(start, stop) == start..(stop - 1)

\* line 151
book_id_range == Range(101, 410)

\* the chapter range with its stop included
chapter_id_range_inclusive == 1..200

\* line 152
chapter_id_range == Range(1, 200)

Min(S) == CHOOSE x \in S : \A y \in S : x <= y

VerseItem(m) ==
    [versesblock |-> TRUE, has_id |-> FALSE, has_verse_span |-> TRUE,
     before |-> <<>>, verse |-> m, after |-> <<" ", "A">>]

PlainItem ==
    [versesblock |-> FALSE, has_id |-> TRUE, has_verse_span |-> FALSE,
     before |-> <<>>, verse |-> <<>>, after |-> <<"A">>]

\* what the site answers for a chapter it has: verses 1 and 2 under a full
\* breadcrumb, verse 1 alone under none, and verse 1 followed by a verse whose
\* marker is no number
ChapterDocuments ==
    {[info |-> CHOOSE i \in Infos : i # EmptyDict, lis |-> <<VerseItem(<<"1">>), VerseItem(<<"2">>)>>],
     [info |-> EmptyDict, lis |-> <<VerseItem(<<"1">>)>>],
     [info |-> EmptyDict, lis |-> <<VerseItem(<<"1">>), VerseItem(<<"x">>)>>]}

\* what it answers for a chapter it does not have: a page with no verse
NoVerseDocuments == {[info |-> EmptyDict, lis |-> <<PlainItem>>]}

\* the (book_id, chapter_id) pairs the site has a chapter for
ServedPairs == {<<101, 2>>, <<409, 198>>}

\* the outcomes of requests.get and raise_for_status for one pair: a
\* RequestException (network error, bad status), or a response to parse
Responses(b, c) ==
    {[failed |-> TRUE, document |-> None]}
    \cup
    {[failed |-> FALSE, document |-> d] :
        d \in IF <<b, c>> \in ServedPairs THEN ChapterDocuments ELSE NoVerseDocuments}

\* lines 25-88: the except clause turns a RequestException into None
fetch_scripture_data(response) ==
    IF response.failed THEN None ELSE chapter_info(response.document)

\* line 161 testing data alone
should_store_any_data(d) == d # None

\* line 161: data and data.get('verses')
should_store(d) == d # None /\ get(d, "verses", <<>>) # <<>>

InitMain ==
    /\ pc = "start"
    /\ \E p \in PriorStores : exists = p.exists /\ db = p.table
    /\ book_id = 0 /\ chapter_id = 0 /\ data = None /\ document = None
    /\ pre_db = EmptyBag /\ rel = "first" /\ prev_nums = {}
    /\ calls = 0 /\ creates = 0 /\ fetches = 0 /\ sleeps = 0

\* line 154, then the entry of both loops
CreateDatabase ==
    /\ pc = "start"
    /\ db' = create_database(exists, db)
    /\ exists' = TRUE
    /\ pre_db' = db
    /\ creates' = creates + 1
    /\ book_id' = Min(book_id_range)
    /\ chapter_id' = Min(chapter_id_range)
    /\ pc' = "fetch"
    /\ UNCHANGED <<data, document, rel, prev_nums, calls, fetches, sleeps>>

\* lines 158-159
Fetch ==
    /\ pc = "fetch"
    /\ \E response \in Responses(book_id, chapter_id) :
          data' = fetch_scripture_data(response)
    /\ fetches' = fetches + 1
    /\ pre_db' = db
    /\ pc' = "process"
    /\ UNCHANGED <<exists, db, book_id, chapter_id, document, rel, prev_nums,
                   calls, creates, sleeps>>

\* lines 161-165: the exception int() raises in store_data_in_database is
\* caught nowhere and ends the program
Process ==
    /\ pc = "process"
    /\ IF should_store(data)
       THEN LET r == store_data_in_database(db, book_id, chapter_id, data) IN
            /\ db' = r.table
            /\ calls' = calls + 1
            /\ pc' = IF r.raised THEN "crashed" ELSE "sleep"
       ELSE /\ pc' = "sleep"
            /\ UNCHANGED <<db, calls>>
    /\ UNCHANGED <<exists, book_id, chapter_id, data, document, pre_db, rel, prev_nums,
                   creates, fetches, sleeps>>

\* line 168, then the step of the loops
Sleep ==
    /\ pc = "sleep"
    /\ sleeps' = sleeps + 1
    /\ IF chapter_id + 1 \in chapter_id_range
       THEN /\ chapter_id' = chapter_id + 1
            /\ UNCHANGED book_id
            /\ pc' = "fetch"
       ELSE IF book_id + 1 \in book_id_range
       THEN /\ book_id' = book_id + 1
            /\ chapter_id' = Min(chapter_id_range)
            /\ pc' = "fetch"
       ELSE /\ pc' = "done"
            /\ UNCHANGED <<book_id, chapter_id>>
    /\ UNCHANGED <<exists, db, data, document, pre_db, rel, prev_nums,
                   calls, creates, fetches>>

NextMain == CreateDatabase \/ Fetch \/ Process \/ Sleep

SpecMain == InitMain /\ [][NextMain]_vars

\* ------------------------------------------------------------- claims on the driver
\* position of a pair in the order book 101..409, chapter 1..199
pair_index(b, c) == (b - 101) * 199 + c

\* the last fetch gave no data: it failed, or its record has no verse
NoData == data = None \/ get(data, "verses", <<>>) = <<>>

\* the record has a verse whose number int() rejects
Offending(d) == d # None /\ \E i \in 1..Len(d["verses"]) : int_raises(d["verses"][i].number)

\* C5: a fetch never ends the run, a failed one gives None; an iteration whose
\* fetch gave no data calls store_data_in_database not at all, leaves the table
\* as it was, and goes on to the sleep and from there to the next pair (or to
\* the end after the last pair), fetching nothing again.
C5_NoDataWritesNothing ==
    /\ [][pc = "fetch" => pc' = "process"]_vars
    /\ [][(pc = "process" /\ NoData) =>
            (pc' = "sleep" /\ db' = db /\ calls' = calls /\ fetches' = fetches)]_vars
    /\ [][(pc = "sleep" /\ NoData) =>
            /\ db' = db /\ db = pre_db /\ calls' = calls /\ fetches' = fetches
            /\ \/ pc' = "done" /\ pair_index(book_id, chapter_id) = 309 * 199
               \/ /\ pc' = "fetch"
                  /\ pair_index(book_id', chapter_id') = pair_index(book_id, chapter_id) + 1]_vars

\* after a chapter was stored, a failed fetch was skipped and the table is as
\* it was
C5_Witness ==
    /\ pc = "sleep" /\ data = None
    /\ calls = 1 /\ db # EmptyBag /\ db = pre_db
    /\ fetches > calls + 1

\* C6: a record with a verse number int() rejects is never stored and passed
\* by: the store call ends the run where it is, no action follows, and the
\* table is as it was before the call, with no row for the pair, the verses
\* before the offending one included.
C6_BadNumberFatalNothingCommitted ==
    /\ pc \in {"sleep", "fetch", "done"} => ~Offending(data)
    /\ pc = "crashed" =>
          /\ Offending(data)
          /\ db = pre_db
          /\ chapter_rows(db, book_id, chapter_id) = {}
          /\ fetches = pair_index(book_id, chapter_id)
          /\ ~ENABLED NextMain

\* the run ended on a record whose first verse number is an integer and whose
\* second is not, with pairs left to fetch
C6_Witness ==
    /\ pc = "crashed"
    /\ Len(data["verses"]) = 2
    /\ ~int_raises(data["verses"][1].number)
    /\ int_raises(data["verses"][2].number)
    /\ fetches < 309 * 199
    /\ calls = 2

\* C7: create_database runs once, before any fetch and any store call; from
\* then on the table exists, and until the first store call it holds no row,
\* whatever the store held before the run; the row of an earlier run is never
\* in it again.
C7_CreateOnceFirstEmpty ==
    /\ pc = "start" => creates = 0 /\ fetches = 0 /\ calls = 0
    /\ pc # "start" => creates = 1 /\ exists
    /\ (pc # "start" /\ calls = 0) => db = EmptyBag
    /\ pc # "start" => OldRow \notin DOMAIN db

\* create_database has just run on a store that held a row
C7_Witness ==
    /\ pc = "fetch" /\ fetches = 0 /\ creates = 1
    /\ pre_db = SetToBag({OldRow})
    /\ exists /\ db = EmptyBag

====
